---- MODULE Spec2Model ----
(***************************************************************************)
(* Temporal cross-validation splitters of igorruys/monthlytimeseries:      *)
(*   MonthlyTimeSeriesSplit (src/time_split_mensal.py) and                 *)
(*   AnchorSplit            (src/validacao_cruzada.py).                    *)
(*                                                                         *)
(* A date is the number of days since 1970-01-01 (a Thursday).  Row        *)
(* positions are 1-based here (numpy / pandas positions plus one).  An     *)
(* optional value (Python None) is the empty tuple, a present value v is   *)
(* the tuple <<v>>.                                                        *)
(***************************************************************************)
EXTENDS Integers, Sequences, FiniteSets, TLC

VARIABLES
    splitter,                \* "monthly" | "anchor": which class split() runs on
    X,                       \* the dataset argument of split(): a sequence of dates
    n_splits,                \* self.n_splits
    max_train_size,          \* MonthlyTimeSeriesSplit.max_train_size (optional)
    test_size,               \* monthly: optional bucket count; anchor: int(test_size_bd)
    gap,                     \* MonthlyTimeSeriesSplit.gap
    min_days_in_last_month,  \* MonthlyTimeSeriesSplit.min_days_in_last_month (optional)
    exec_date,               \* AnchorSplit.exec_date
    holidays,                \* AnchorSplit.holidays
    min_date,                \* AnchorSplit.min_date (optional)
    folds,                   \* local `folds` of AnchorSplit.split / folds delivered (monthly)
    year,                    \* local `year` of AnchorSplit.split
    pc,                      \* "run" | "done" | "error": position of the generator
    yielded,                 \* the folds yielded so far, in order
    warned,                  \* the RuntimeWarnings emitted so far, in order
    skipped,                 \* years passed over by `continue` (empty test window)
    stop_year                \* the year at which `break` was taken (optional)

vars == <<splitter, X, n_splits, max_train_size, test_size, gap,
          min_days_in_last_month, exec_date, holidays, min_date,
          folds, year, pc, yielded, warned, skipped, stop_year>>

None == <<>>
Some(v) == <<v>>
Val(o) == o[1]

---------------------------------------------------------------------------
(* Bounds of the model *)
MaxSplits == 2
MaxTestBD == 2
MaxHolBlock == 5
MaxRows == 4

(* Program constants *)
DefaultTestSize == 42
MinTrainRows == 252

---------------------------------------------------------------------------
(* Calendar arithmetic of pd.Timestamp (proleptic Gregorian calendar) *)

DaysFromCivil(y, m, d) ==
    LET yy  == IF m <= 2 THEN y - 1 ELSE y
        era == yy \div 400
        yoe == yy - era * 400
        mp  == IF m > 2 THEN m - 3 ELSE m + 9
        doy == (153 * mp + 2) \div 5 + d - 1
        doe == yoe * 365 + yoe \div 4 - yoe \div 100 + doy
    IN  era * 146097 + doe - 719468

CivilFromDays(z) ==
    LET zz  == z + 719468
        era == zz \div 146097
        doe == zz - era * 146097
        yoe == (doe - doe \div 1460 + doe \div 36524 - doe \div 146096) \div 365
        doy == doe - (365 * yoe + yoe \div 4 - yoe \div 100)
        mp  == (5 * doy + 2) \div 153
        d   == doy - (153 * mp + 2) \div 5 + 1
        m   == IF mp < 10 THEN mp + 3 ELSE mp - 9
        y   == yoe + era * 400 + (IF m <= 2 THEN 1 ELSE 0)
    IN  [year |-> y, month |-> m, day |-> d]

\* the calendar years the model's dates lie in, and their fields, tabulated
CalendarDays == DaysFromCivil(2018, 1, 1)..DaysFromCivil(2025, 12, 31)
Civil == [z \in CalendarDays |-> CivilFromDays(z)]

\* Timestamp.year, .month, .day
YearOf(z)  == Civil[z].year
MonthOf(z) == Civil[z].month
DayOf(z)   == Civil[z].day

\* Timestamp.weekday(): Monday = 0 ... Sunday = 6
Weekday(z) == (z + 3) % 7

\* to_period('M'): the (year, month) bucket, ordered chronologically
MonthPeriod(z) == YearOf(z) * 12 + MonthOf(z) - 1

---------------------------------------------------------------------------
(* AnchorSplit: the pattern captured by __init__ *)

\* self._wk of an instance built with exec_date = e
WkOf(e) == Weekday(e)

\* self._ord of an instance built with exec_date = e
OrdOf(e) == 1 + (DayOf(e) - 1) \div 7

\* the date _anchor_for_year computes before it steps back to a business day
CandidateOf(e, y) ==
    LET first == DaysFromCivil(y, MonthOf(e), 1)
        delta == (WkOf(e) - Weekday(first)) % 7
    IN  first + delta + 7 * (OrdOf(e) - 1)

Candidate(y) == CandidateOf(exec_date, y)

\* one test of the `while` condition of _anchor_for_year
NotBusinessDay(d, H) == Weekday(d) >= 5 \/ d \in H

\* faulty variant: the loop steps forward instead of back
RECURSIVE SnapForward(_, _)
SnapForward(d, H) == IF NotBusinessDay(d, H) THEN SnapForward(d + 1, H) ELSE d

\* the `while` loop of _anchor_for_year
RECURSIVE Snap(_, _)
Snap(d, H) == IF NotBusinessDay(d, H) THEN Snap(d - 1, H) ELSE d

_anchor_for_year(y) == Snap(Candidate(y), holidays)

\* np.busday_offset's roll of a non-business day before the offset is applied
RECURSIVE Roll(_, _, _)
Roll(d, dir, H) == IF NotBusinessDay(d, H) THEN Roll(d + dir, dir, H) ELSE d

\* n business days from a business day d (n of either sign)
Advance(d0, n, H) ==
    LET dir == IF n > 0 THEN 1 ELSE -1
        adv[d \in Int, k \in Nat] ==
            IF k = 0 THEN d ELSE adv[Roll(d + dir, dir, H), k - 1]
    IN  adv[d0, n * dir]

\* anchor + CustomBusinessDay(n, holidays)
CustomBusinessDay(d, n, H) ==
    Advance(Roll(d, IF n <= 0 THEN 1 ELSE -1, H), n, H)

\* faulty variant: the offset is test_size instead of test_size - 1
TestEndOffByOne(anchor) == CustomBusinessDay(anchor, test_size, holidays)

\* test_end = anchor + offset
TestEnd(anchor) == CustomBusinessDay(anchor, test_size - 1, holidays)

\* np.where((dates >= anchor) & (dates <= test_end))[0]
TestIdx(anchor) ==
    LET test_end == TestEnd(anchor)
    IN  {i \in 1..Len(X) : X[i] >= anchor /\ X[i] <= test_end}

\* faulty variant: rows dated on the anchor are taken into the train set
TrainIdxInclusive(anchor) == {i \in 1..Len(X) : X[i] <= anchor}

\* np.where(dates < anchor)[0]
TrainIdx(anchor) == {i \in 1..Len(X) : X[i] < anchor}

---------------------------------------------------------------------------
(* AnchorSplit.split: one action per pass of the `while` loop *)

\* the loop condition `folds < self.n_splits and year >= dates[0].year`
LoopCond == folds < n_splits /\ year >= YearOf(X[1])

\* dates[0] of an empty index raises IndexError (reached only if folds < n_splits)
AnchorRaise ==
    /\ splitter = "anchor" /\ pc = "run"
    /\ folds < n_splits /\ Len(X) = 0
    /\ pc' = "error"
    /\ UNCHANGED <<splitter, X, n_splits, max_train_size, test_size, gap,
                   min_days_in_last_month, exec_date, holidays, min_date,
                   folds, year, yielded, warned, skipped, stop_year>>

\* the loop condition is false: the generator returns
AnchorExit ==
    /\ splitter = "anchor" /\ pc = "run"
    /\ folds >= n_splits \/ (Len(X) > 0 /\ ~LoopCond)
    /\ pc' = "done"
    /\ UNCHANGED <<splitter, X, n_splits, max_train_size, test_size, gap,
                   min_days_in_last_month, exec_date, holidays, min_date,
                   folds, year, yielded, warned, skipped, stop_year>>

\* faulty variant: the years are compared instead of the dates
BelowMinDateByYear(anchor) ==
    min_date # None /\ YearOf(anchor) < YearOf(Val(min_date))

\* `if self.min_date is not None and anchor < self.min_date`
BelowMinDate(anchor) == min_date # None /\ anchor < Val(min_date)

\* `break`: the anchor is before min_date
AnchorBreak ==
    /\ splitter = "anchor" /\ pc = "run"
    /\ Len(X) > 0 /\ LoopCond
    /\ BelowMinDate(_anchor_for_year(year))
    /\ pc' = "done"
    /\ stop_year' = Some(year)
    /\ UNCHANGED <<splitter, X, n_splits, max_train_size, test_size, gap,
                   min_days_in_last_month, exec_date, holidays, min_date,
                   folds, year, yielded, warned, skipped>>

\* faulty variant: a skipped year uses up a fold slot
AnchorSkipCounted ==
    /\ splitter = "anchor" /\ pc = "run"
    /\ Len(X) > 0 /\ LoopCond
    /\ LET anchor == _anchor_for_year(year)
       IN  /\ ~BelowMinDate(anchor)
           /\ TestIdx(anchor) = {}
    /\ year' = year - 1
    /\ folds' = folds + 1
    /\ skipped' = skipped \cup {year}
    /\ UNCHANGED <<splitter, X, n_splits, max_train_size, test_size, gap,
                   min_days_in_last_month, exec_date, holidays, min_date,
                   pc, yielded, warned, stop_year>>

\* `continue`: no dataset date in the test window
AnchorSkip ==
    /\ splitter = "anchor" /\ pc = "run"
    /\ Len(X) > 0 /\ LoopCond
    /\ LET anchor == _anchor_for_year(year)
       IN  /\ ~BelowMinDate(anchor)
           /\ TestIdx(anchor) = {}
    /\ year' = year - 1
    /\ skipped' = skipped \cup {year}
    /\ UNCHANGED <<splitter, X, n_splits, max_train_size, test_size, gap,
                   min_days_in_last_month, exec_date, holidays, min_date,
                   folds, pc, yielded, warned, stop_year>>

\* faulty variant: a train set of exactly 252 rows is warned about too
LowTrainInclusive(train_idx) == Cardinality(train_idx) <= MinTrainRows

\* `if train_idx.size < 252: warnings.warn(...)`
LowTrain(train_idx) == Cardinality(train_idx) < MinTrainRows

\* the warning of one pass: none, or the one naming fold `folds + 1` and the size
Warning(train_idx) ==
    IF LowTrain(train_idx)
    THEN <<[fold |-> folds + 1, size |-> Cardinality(train_idx)]>>
    ELSE <<>>

\* faulty variant: the year is not stepped back after a fold is yielded
AnchorYieldSameYear ==
    /\ splitter = "anchor" /\ pc = "run"
    /\ Len(X) > 0 /\ LoopCond
    /\ LET anchor    == _anchor_for_year(year)
           test_idx  == TestIdx(anchor)
           train_idx == TrainIdx(anchor)
       IN  /\ ~BelowMinDate(anchor)
           /\ test_idx # {}
           /\ warned' = warned \o Warning(train_idx)
           /\ yielded' = Append(yielded,
                  [train |-> train_idx, test |-> test_idx, year |-> year,
                   anchor |-> anchor, test_end |-> TestEnd(anchor)])
    /\ folds' = folds + 1
    /\ UNCHANGED <<splitter, X, n_splits, max_train_size, test_size, gap,
                   min_days_in_last_month, exec_date, holidays, min_date,
                   year, pc, skipped, stop_year>>

\* a fold is yielded (anchor, test_end and year are recorded with it)
AnchorYield ==
    /\ splitter = "anchor" /\ pc = "run"
    /\ Len(X) > 0 /\ LoopCond
    /\ LET anchor    == _anchor_for_year(year)
           test_idx  == TestIdx(anchor)
           train_idx == TrainIdx(anchor)
       IN  /\ ~BelowMinDate(anchor)
           /\ test_idx # {}
           /\ warned' = warned \o Warning(train_idx)
           /\ yielded' = Append(yielded,
                  [train |-> train_idx, test |-> test_idx, year |-> year,
                   anchor |-> anchor, test_end |-> TestEnd(anchor)])
    /\ folds' = folds + 1
    /\ year' = year - 1
    /\ UNCHANGED <<splitter, X, n_splits, max_train_size, test_size, gap,
                   min_days_in_last_month, exec_date, holidays, min_date,
                   pc, skipped, stop_year>>

---------------------------------------------------------------------------
(* MonthlyTimeSeriesSplit.split *)

\* X['_Month']: the month bucket of every row
Months == [i \in 1..Len(X) |-> MonthPeriod(X[i])]

\* Series.unique(): the distinct values in order of first appearance
unique(s) ==
    LET firsts == {i \in 1..Len(s) : \A j \in 1..(i - 1) : s[j] # s[i]}
    IN  [k \in 1..Cardinality(firsts) |->
            s[CHOOSE i \in firsts : Cardinality({j \in firsts : j <= i}) = k]]

\* unique_months as first derived
AllMonths == unique(Months)

\* unique_months[-1]
last_month == LET um == AllMonths IN um[Len(um)]

SetMax(S) == CHOOSE m \in S : \A x \in S : x <= m

\* last_month_data[date_column].dt.day.max()
max_day_in_last_month ==
    LET months == Months
        last   == last_month
    IN  SetMax({DayOf(X[i]) : i \in {j \in 1..Len(X) : months[j] = last}})

\* faulty variant: the last month is removed when its largest day equals the threshold
DropLastInclusive ==
    /\ min_days_in_last_month # None
    /\ max_day_in_last_month <= Val(min_days_in_last_month)

\* the test that removes the last month
DropLast ==
    /\ min_days_in_last_month # None
    /\ max_day_in_last_month < Val(min_days_in_last_month)

\* unique_months as handed to TimeSeriesSplit
unique_months ==
    LET um == AllMonths
    IN  IF DropLast THEN SubSeq(um, 1, Len(um) - 1) ELSE um

\* TimeSeriesSplit: test_size, or n_samples // n_folds when it is None
TSTestSize(n_samples) ==
    IF test_size = None THEN n_samples \div (n_splits + 1) ELSE Val(test_size)

\* TimeSeriesSplit.split raises ValueError: too few samples for the folds
TSError(n_samples) ==
    \/ n_splits + 1 > n_samples
    \/ n_samples - gap - TSTestSize(n_samples) * n_splits <= 0

\* TimeSeriesSplit.split: the k-th pair of 0-based sample positions
TSFold(n_samples, k) ==
    LET ts         == TSTestSize(n_samples)
        test_start == n_samples - n_splits * ts + (k - 1) * ts
        train_end  == test_start - gap
        lo         == IF max_train_size # None /\ Val(max_train_size) # 0
                         /\ Val(max_train_size) < train_end
                      THEN train_end - Val(max_train_size)
                      ELSE 0
    IN  [train |-> lo..(train_end - 1),
         test  |-> test_start..(test_start + ts - 1)]

\* X[X['_Month'].isin(months)].index, the index being the row positions
RowsOf(months) ==
    LET row_months == Months
    IN  {i \in 1..Len(X) : row_months[i] \in months}

\* the k-th fold of MonthlyTimeSeriesSplit.split
MonthlyFold(k) ==
    LET um == unique_months
        f  == TSFold(Len(um), k)
        train_months == {um[j + 1] : j \in f.train}
        test_months  == {um[j + 1] : j \in f.test}
    IN  [train |-> RowsOf(train_months), test |-> RowsOf(test_months),
         train_months |-> train_months, test_months |-> test_months]

\* month_splits.split(unique_months) raises: split yields nothing
MonthlyRaise ==
    /\ splitter = "monthly" /\ pc = "run"
    /\ TSError(Len(unique_months))
    /\ pc' = "error"
    /\ UNCHANGED <<splitter, X, n_splits, max_train_size, test_size, gap,
                   min_days_in_last_month, exec_date, holidays, min_date,
                   folds, year, yielded, warned, skipped, stop_year>>

\* the next fold is yielded
MonthlyYield ==
    /\ splitter = "monthly" /\ pc = "run"
    /\ ~TSError(Len(unique_months))
    /\ folds < n_splits
    /\ yielded' = Append(yielded, MonthlyFold(folds + 1))
    /\ folds' = folds + 1
    /\ UNCHANGED <<splitter, X, n_splits, max_train_size, test_size, gap,
                   min_days_in_last_month, exec_date, holidays, min_date,
                   year, pc, warned, skipped, stop_year>>

\* the delegate is exhausted: the generator returns
MonthlyDone ==
    /\ splitter = "monthly" /\ pc = "run"
    /\ ~TSError(Len(unique_months))
    /\ folds >= n_splits
    /\ pc' = "done"
    /\ UNCHANGED <<splitter, X, n_splits, max_train_size, test_size, gap,
                   min_days_in_last_month, exec_date, holidays, min_date,
                   folds, year, yielded, warned, skipped, stop_year>>

---------------------------------------------------------------------------
(* Inputs *)

\* dates of the rows given to MonthlyTimeSeriesSplit.split
MonthlyDates ==
    {DaysFromCivil(2022, 12, 20), DaysFromCivil(2023, 1, 3),
     DaysFromCivil(2023, 1, 15), DaysFromCivil(2023, 2, 3),
     DaysFromCivil(2023, 3, 15)}

MonthlyInputs == UNION {[1..n -> MonthlyDates] : n \in 1..MaxRows}

\* (max_train_size, test_size): the defaults, or one bucket each
MonthlyWindows == {<<None, None>>, <<Some(1), Some(1)>>}

\* pd.date_range(start, end, freq='D')
DailyRange(start, end) == [i \in 1..(end - start + 1) |-> start + i - 1]

\* pd.date_range(start, end, freq='B'): the Monday-to-Friday days of the range
BusinessRange(start, end) ==
    LET s0 == Roll(start, 1, {})
        w0 == Weekday(s0)
        n  == Cardinality({d \in start..end : Weekday(d) < 5})
    IN  [i \in 1..n |->
            LET k == i - 1 + w0 IN s0 - w0 + 7 * (k \div 5) + (k % 5)]

Reverse(s) == [i \in 1..Len(s) |-> s[Len(s) + 1 - i]]

\* the date sequences given to AnchorSplit.split
AnchorInputs ==
    {BusinessRange(DaysFromCivil(2023, 1, 2), DaysFromCivil(2024, 3, 29)),
     BusinessRange(DaysFromCivil(2023, 1, 25), DaysFromCivil(2024, 3, 29)),
     BusinessRange(DaysFromCivil(2023, 1, 2), DaysFromCivil(2023, 12, 15)),
     BusinessRange(DaysFromCivil(2022, 12, 1), DaysFromCivil(2023, 3, 31)),
     DailyRange(DaysFromCivil(2023, 12, 20), DaysFromCivil(2024, 2, 10)),
     Reverse(BusinessRange(DaysFromCivil(2024, 1, 2), DaysFromCivil(2024, 3, 29))),
     <<>>}

\* execution dates: the 2nd Friday, the 2nd Saturday and the 5th Friday of a month
ExecDates ==
    {DaysFromCivil(2025, 1, 10), DaysFromCivil(2025, 1, 11),
     DaysFromCivil(2025, 1, 31)}

\* a run of len consecutive holidays ending on day e
HolBlock(e, len) == (e - len + 1)..e

\* holiday lists: none, or a run ending on last year's candidate date (so that
\* the anchor steps back) or three days after it (inside the test window)
HolidaySets(e) ==
    LET c == CandidateOf(e, YearOf(e) - 1)
    IN  {HolBlock(h, len) : h \in {c, c + 3}, len \in 0..MaxHolBlock}

MinDates ==
    {None, Some(DaysFromCivil(2018, 1, 1)), Some(DaysFromCivil(2023, 6, 1))}

TestSizes == 1..MaxTestBD \cup {DefaultTestSize}

InitMonthly ==
    /\ splitter = "monthly"
    /\ X \in MonthlyInputs
    /\ n_splits \in 2..MaxSplits
    /\ \E w \in MonthlyWindows : max_train_size = w[1] /\ test_size = w[2]
    /\ gap \in {0, 1}
    /\ min_days_in_last_month \in {None, Some(15)}
    /\ exec_date = 0 /\ holidays = {} /\ min_date = None
    /\ year = 0

InitAnchor ==
    /\ splitter = "anchor"
    /\ X \in AnchorInputs
    /\ n_splits \in 0..MaxSplits
    /\ exec_date \in ExecDates
    /\ holidays \in HolidaySets(exec_date)
    /\ test_size \in TestSizes
    /\ min_date \in MinDates
    /\ max_train_size = None /\ gap = 0 /\ min_days_in_last_month = None
    /\ year = YearOf(exec_date) - 1

Init ==
    /\ InitMonthly \/ InitAnchor
    /\ folds = 0
    /\ pc = "run"
    /\ yielded = <<>>
    /\ warned = <<>>
    /\ skipped = {}
    /\ stop_year = None

Next ==
    \/ MonthlyRaise
    \/ MonthlyYield
    \/ MonthlyDone
    \/ AnchorRaise
    \/ AnchorExit
    \/ AnchorBreak
    \/ AnchorSkip
    \/ AnchorYield

Spec == Init /\ [][Next]_vars

---------------------------------------------------------------------------
(* Claims *)

Folds == {yielded[k] : k \in 1..Len(yielded)}

\* the years for which the walk of AnchorSplit.split has derived an anchor
Derived ==
    {f.year : f \in Folds} \cup skipped
        \cup (IF stop_year = None THEN {} ELSE {Val(stop_year)})

IsBusinessDay(d) == Weekday(d) \in 0..4 /\ d \notin holidays

\* C1: MonthlyTimeSeriesSplit.split, any row order: in every yielded fold each
\* train row's date is strictly earlier than each test row's date.
C1_MonthlyNoLeakage ==
    splitter = "monthly" =>
        \A f \in Folds : \A i \in f.train : \A j \in f.test : X[i] < X[j]

\* C2: in every fold yielded by either splitter the train index set and the
\* test index set have no element in common.
C2_TrainTestDisjoint ==
    \A f \in Folds : f.train \cap f.test = {}

C2_Witness ==
    /\ Len(yielded) >= 2
    /\ \A f \in Folds : f.train # {} /\ f.test # {}

\* C3: AnchorSplit.split: the test indices of a fold are exactly the positions
\* dated in [anchor, test_end], test_end being the test_size-th business day
\* counted from the anchor (the anchor itself when test_size = 1); the train
\* indices are exactly the positions dated before the anchor; so every train
\* date is strictly earlier than every test date.
C3_AnchorWindow ==
    splitter = "anchor" =>
        \A f \in Folds :
            /\ f.test_end >= f.anchor
            /\ IsBusinessDay(f.test_end)
            /\ Cardinality({d \in f.anchor..f.test_end : IsBusinessDay(d)})
                   = test_size
            /\ (test_size = 1 => f.test_end = f.anchor)
            /\ f.test = {i \in 1..Len(X) :
                             f.anchor <= X[i] /\ X[i] <= f.test_end}
            /\ f.train = {i \in 1..Len(X) : X[i] < f.anchor}
            /\ \A i \in f.train : \A j \in f.test : X[i] < X[j]

C3_Witness ==
    /\ splitter = "anchor"
    /\ \E f \in Folds :
          /\ f.train # {}
          /\ f.test_end > f.anchor
          /\ holidays \cap (f.anchor..f.test_end) # {}
    /\ \E f \in Folds : f.train = {}

\* C4 as stated: when the largest day-of-month among the rows of the last
\* month bucket is below min_days_in_last_month no row of that month is in any
\* fold; otherwise, once split has run to its end, rows of that month are in
\* some fold; the bucket list split uses is the derived list, less at most its
\* last bucket.
LastMonthRows == RowsOf({last_month})

BelowThreshold ==
    /\ min_days_in_last_month # None
    /\ max_day_in_last_month < Val(min_days_in_last_month)

LastMonthAbsent ==
    LET rows == LastMonthRows
    IN  \A f \in Folds : (f.train \cup f.test) \cap rows = {}

LastMonthPresent ==
    LET rows == LastMonthRows
    IN  \E f \in Folds : (f.train \cup f.test) \cap rows # {}

OnlyLastDropped ==
    LET all  == AllMonths
        um   == unique_months
        kept == {um[k] : k \in 1..Len(um)}
    IN  /\ Len(all) - Len(um) \in {0, 1}
        /\ um = SubSeq(all, 1, Len(um))
        /\ \A f \in Folds : f.train_months \cup f.test_months \subseteq kept

C5_FoldCeiling ==
    splitter = "anchor" =>
        /\ Len(yielded) <= n_splits
        /\ Len(X) > 0 =>
              Len(yielded) + Cardinality(skipped)
                  <= YearOf(exec_date) - YearOf(X[1])
        /\ stop_year # None => pc = "done"
        /\ \A f \in Folds : \A y \in f.year..(YearOf(exec_date) - 1) :
              min_date # None => Snap(Candidate(y), holidays) >= Val(min_date)

C5_Witness ==
    /\ splitter = "anchor" /\ pc = "done"
    /\ stop_year # None
    /\ Len(yielded) >= 1 /\ Len(yielded) < n_splits

\* C6 as stated: for every year the walk derives an anchor for, the anchor is
\* a business day, is not later than the candidate date, lies fewer than 7
\* days before it, and for a Saturday candidate is the preceding Friday, or an
\* earlier business day when that Friday is a holiday.
SnapsBack(y) ==
    LET c == Candidate(y)
        a == _anchor_for_year(y)
    IN  /\ IsBusinessDay(a)
        /\ a <= c
        /\ \A d \in (a + 1)..c : ~IsBusinessDay(d)
        /\ Weekday(c) = 5 =>
              IF c - 1 \in holidays THEN a < c - 1 ELSE a = c - 1

C6_AsStated ==
    splitter = "anchor" =>
        \A y \in Derived :
            SnapsBack(y) /\ Candidate(y) - _anchor_for_year(y) < 7

\* C6 amended: the anchor is the latest business day on or before the
\* candidate date; it lies fewer than 7 days before it unless the five
\* weekdays among the seven days ending on the candidate are all holidays,
\* and then it lies 7 days or more before it.
C6_AnchorSnapping ==
    splitter = "anchor" =>
        \A y \in Derived :
            LET c == Candidate(y)
                a == _anchor_for_year(y)
                week_off == \A d \in (c - 6)..c : ~IsBusinessDay(d)
            IN  /\ SnapsBack(y)
                /\ ~week_off => c - a < 7
                /\ week_off => c - a >= 7

C6_Witness ==
    /\ splitter = "anchor"
    /\ \E y \in Derived :
          /\ Weekday(Candidate(y)) = 5
          /\ Candidate(y) - 1 \in holidays
          /\ _anchor_for_year(y) < Candidate(y) - 1
    /\ \E y \in Derived :
          /\ Weekday(Candidate(y)) = 5
          /\ _anchor_for_year(y) = Candidate(y) - 1

LowFolds == {k \in 1..Len(yielded) : Cardinality(yielded[k].train) < MinTrainRows}

C8_LowTrainWarning ==
    splitter = "anchor" =>
        /\ Len(warned) = Cardinality(LowFolds)
        /\ \A w \in 1..Len(warned) :
              /\ warned[w].fold \in LowFolds
              /\ warned[w].size = Cardinality(yielded[warned[w].fold].train)
              /\ \A v \in 1..(w - 1) : warned[v].fold < warned[w].fold
        /\ \A k \in LowFolds :
              /\ yielded[k].train = {i \in 1..Len(X) : X[i] < yielded[k].anchor}
              /\ yielded[k].test =
                    {i \in 1..Len(X) : yielded[k].anchor <= X[i]
                                        /\ X[i] <= yielded[k].test_end}

C8_Witness ==
    /\ splitter = "anchor"
    /\ Len(yielded) = 2
    /\ Cardinality(yielded[1].train) = MinTrainRows
    /\ warned = <<[fold |-> 2, size |-> Cardinality(yielded[2].train)]>>

\* C9: AnchorSplit.split: a year with no dataset date in its test window
\* yields no fold, no warning and no increment of the fold counter; every
\* yielded fold has a non-empty test set; and when split returns, the number
\* of folds is the smaller of n_splits and the number of years with a
\* non-empty test window among the years from exec_date.year - 1 down to the
\* year of the first dataset date that come before the first year (in that
\* order) whose anchor is before min_date.
WindowNonEmpty(y) ==
    LET a == _anchor_for_year(y)
        e == TestEnd(a)
    IN  \E i \in 1..Len(X) : a <= X[i] /\ X[i] <= e

WalkYears == YearOf(X[1])..(YearOf(exec_date) - 1)

BeforeFloor(y) ==
    \A z \in y..(YearOf(exec_date) - 1) :
        min_date # None => _anchor_for_year(z) >= Val(min_date)

CountedYears == {y \in WalkYears : BeforeFloor(y) /\ WindowNonEmpty(y)}

Min(a, b) == IF a <= b THEN a ELSE b

C9_EmptyWindowSkipped ==
    splitter = "anchor" =>
        /\ folds = Len(yielded)
        /\ Len(warned) <= Len(yielded)
        /\ \A y \in skipped :
              ~WindowNonEmpty(y) /\ \A f \in Folds : f.year # y
        /\ \A f \in Folds : f.test # {}
        /\ pc = "done" /\ Len(X) > 0 =>
              Len(yielded) = Min(n_splits, Cardinality(CountedYears))

C9_Witness ==
    /\ splitter = "anchor" /\ pc = "done"
    /\ \E y \in skipped : \E f \in Folds : f.year < y
    /\ Len(yielded) < n_splits
    /\ stop_year = None

\* C10: AnchorSplit._anchor_for_year: the candidate date of year y lies in the
\* execution date's month of year y, has the execution date's weekday and is
\* the same ordinal occurrence of that weekday in its month (1 + (day - 1)
\* div 7) as the execution date is in its own.
C10_CandidatePattern ==
    splitter = "anchor" =>
        \A y \in Derived :
            LET c == Candidate(y)
            IN  /\ YearOf(c) = y
                /\ MonthOf(c) = MonthOf(exec_date)
                /\ Weekday(c) = Weekday(exec_date)
                /\ 1 + (DayOf(c) - 1) \div 7 = 1 + (DayOf(exec_date) - 1) \div 7

====
